---------------------------- MODULE Spec2Model ----------------------------
(***************************************************************************)
(* POST /api/validate-vat of src/server.js (lines 159-285): the VIES ->     *)
(* VIES retry -> vatlayer orchestration under one 20 s time budget.         *)
(*                                                                         *)
(* One request is followed from its arrival to its response and beyond,    *)
(* until the provider operations it left behind have settled.  Time is a   *)
(* wall clock in milliseconds.  While the handler awaits a race the clock  *)
(* advances up to the race's timer; between two statements of synchronous  *)
(* code the process may be paused (Stall).                                 *)
(***************************************************************************)
EXTENDS Integers, Sequences, FiniteSets, TLC

\* ------------------------------------------------------------------ bounds
MaxLen == 3          \* longest raw vat_number string
TickMs == 4000       \* granularity of the clock while a race is awaited
MaxStalls == 1       \* pauses of the process inside synchronous code

\* ------------------------------------------------------- program constants
TIME_BUDGET_MS == 20000
VIES1_CAP_MS == 8000
VIES2_CAP_MS == 6000
VATLAYER_CAP_MS == 8000
MIN_VAT_LENGTH == 3

Min(a, b) == IF a <= b THEN a ELSE b
Max(a, b) == IF a >= b THEN a ELSE b

\* ----------------------------------------------------------------- strings
\* A string is a sequence of characters.
Alphabet == {"d", " "}

RECURSIVE StringsUpTo(_)
StringsUpTo(n) ==
    IF n = 0 THEN {<< >>}
    ELSE LET shorter == StringsUpTo(n - 1)
         IN  shorter \cup {Append(s, c) : s \in {t \in shorter : Len(t) = n - 1}, c \in Alphabet}

\* JSON values a client can put in vat_number: absent, null, numbers, strings.
JsonValues ==
    {[type |-> "undefined"], [type |-> "null"],
     [type |-> "number", num |-> 0], [type |-> "number", num |-> 123]}
    \cup {[type |-> "string", chars |-> s] : s \in StringsUpTo(MaxLen)}

Falsy(v) ==
    \/ v.type \in {"undefined", "null"}
    \/ v.type = "number" /\ v.num = 0
    \/ v.type = "string" /\ v.chars = << >>

UpperOfChar(c) ==
    CASE c = "d" -> <<"D">>
      [] OTHER   -> <<c>>

RECURSIVE toUpperCase(_)
toUpperCase(s) ==
    IF s = << >> THEN << >> ELSE UpperOfChar(Head(s)) \o toUpperCase(Tail(s))

IsWhitespace(c) == c = " "

RECURSIVE stripWhitespace(_)
stripWhitespace(s) ==
    IF s = << >> THEN << >>
    ELSE IF IsWhitespace(Head(s)) THEN stripWhitespace(Tail(s))
         ELSE <<Head(s)>> \o stripWhitespace(Tail(s))

\* (req.body.vat_number || "").toUpperCase().replace(/\s+/g, "")
\* A truthy value that is not a string has no toUpperCase: the call throws.
NormalizeThrowsOn(v) == ~Falsy(v) /\ v.type # "string"

NormalizeVat(v) ==
    IF Falsy(v) THEN << >> ELSE stripWhitespace(toUpperCase(v.chars))

\* Mutant: the length test is off by one.
RejectedOffByOne(raw) == raw = << >> \/ Len(raw) < MIN_VAT_LENGTH - 1

\* !rawVat || rawVat.length < 3
Rejected(raw) == raw = << >> \/ Len(raw) < MIN_VAT_LENGTH


\* ------------------------------------------------------------------ errors
\* An error as isServiceUnavailable reads it: the SOAP fault string, the HTTP
\* response data, the body and the message ("" where the field is absent).
Err(fault, data, body, message) ==
    [faultstring |-> fault, data |-> data, body |-> body, message |-> message]

ErrMsUnavailable == Err("MS_UNAVAILABLE", "", "", "soap:Server: MS_UNAVAILABLE")
ErrInvalidInput  == Err("INVALID_INPUT", "", "", "soap:Server: INVALID_INPUT")
ErrConnRefused   == Err("", "", "", "connect ECONNREFUSED")
ErrGateway       == Err("", "", "<html>503 Service Temporarily Unavailable</html>",
                        "Invalid response: 503")
ErrMalformed     == Err("", "", "", "Cannot read properties of undefined (reading 'valid')")

\* new Error(`timeout_${label}`)
TimeoutError(label) == Err("", "", "", "timeout_" \o label)

\* What createClientAsync / checkVatAsync can reject with.
WsdlErrors     == {ErrConnRefused, ErrGateway}
CheckVatErrors == {ErrMsUnavailable, ErrInvalidInput, ErrGateway, ErrMalformed}

\* Mutant: the pattern lacks the timeout alternative.
RegexTestNoTimeout(text) ==
    text \in {"MS_UNAVAILABLE", "soap:Server: MS_UNAVAILABLE",
              "<html>503 Service Temporarily Unavailable</html>"}

\* The texts of this model on which
\* /MS_UNAVAILABLE|SERVICE_UNAVAILABLE|temporarily|timeout/i matches.
RegexTest(text) ==
    text \in {"MS_UNAVAILABLE", "soap:Server: MS_UNAVAILABLE",
              "<html>503 Service Temporarily Unavailable</html>",
              "timeout_vies1", "timeout_vies2", "timeout_vatlayer"}

\* Mutant: only err.message is looked at.
MessageOnly(e) == e.message

\* a || b || c || d || "" : the first truthy (non-empty) text
FirstTruthy(e) ==
    IF e.faultstring # "" THEN e.faultstring
    ELSE IF e.data # "" THEN e.data
    ELSE IF e.body # "" THEN e.body
    ELSE e.message

\* Mutant: every failure counts as temporary.
AlwaysUnavailable(e) == TRUE

isServiceUnavailable(e) == RegexTest(FirstTruthy(e))

\* ---------------------------------------------------------------- payloads
\* What checkVatAsync resolves with; "" and "undefined" are falsy texts.
ViesPayloads ==
    {[valid |-> TRUE,  name |-> "ACME GmbH", address |-> "Hauptstr. 1"],
     [valid |-> TRUE,  name |-> "ACME GmbH", address |-> "undefined"],
     [valid |-> FALSE, name |-> "", address |-> ""]}

\* JSON a vatlayer endpoint answers with; absent fields are "undefined".
VatlayerPayloads ==
    {[valid |-> "true", validation_status |-> "undefined", format_valid |-> "true",
      company_name |-> "ACME GmbH", company_address |-> "Hauptstr. 1"],
     [valid |-> "false", validation_status |-> "undefined", format_valid |-> "false",
      company_name |-> "", company_address |-> ""],
     [valid |-> "undefined", validation_status |-> "valid", format_valid |-> "undefined",
      company_name |-> "undefined", company_address |-> "undefined"],
     [valid |-> "false", validation_status |-> "invalid", format_valid |-> "true",
      company_name |-> "undefined", company_address |-> "undefined"],
     [valid |-> "false", validation_status |-> "undefined", format_valid |-> "undefined",
      company_name |-> "undefined", company_address |-> "undefined"]}

\* x || null
OrNull(text) == IF text \in {"", "undefined"} THEN "null" ELSE text

\* viesCheck's return value
ViesResult(result) ==
    [valid |-> result.valid, name |-> OrNull(result.name),
     address |-> OrNull(result.address), source |-> "vies"]

\* Mutant: d.valid is tested for truthiness instead of === true.
VatlayerValidTruthy(json) ==
    \/ json.valid \notin {"false", "undefined", ""}
    \/ json.validation_status = "valid"
    \/ json.format_valid = "true"

\* d.valid === true || d.validation_status === "valid" || d.format_valid === true
VatlayerValid(json) ==
    json.valid = "true" \/ json.validation_status = "valid" \/ json.format_valid = "true"

\* vatlayerCheck's return value for the endpoint that answered
VatlayerResult(json, source) ==
    [valid |-> VatlayerValid(json), name |-> OrNull(json.company_name),
     address |-> OrNull(json.company_address), source |-> source]

\* { valid: true, name: null, address: null }
FailOpenBody == [valid |-> TRUE, name |-> "null", address |-> "null"]

BadRequestBody == [error |-> "Ungültige VAT-Nummer"]


\* ------------------------------------------------------------------- state
VARIABLES
    vat_number,        \* req.body.vat_number
    VATLAYER_API_KEY,  \* process.env.VATLAYER_API_KEY ("undefined" when unset)
    pc,                \* where the handler stands
    rawVat,            \* the normalized identifier
    now,               \* Date.now()
    startedAt,         \* the clock reading the budget counts from
    stalls,            \* pauses of synchronous code so far
    err1,              \* what the first VIES attempt failed with
    errFb,             \* what the vatlayer attempt failed with
    d,                 \* the JSON vatlayerCheck handed to the handler (<< >>: none)
    promise,           \* state of the provider operation of each attempt
    ms,                \* timeout allotted to each attempt (-1: not started)
    left,              \* timeLeft() read by the check guarding each attempt (-1: not read)
    timerAt,           \* when the timer of the awaited race is due
    outcome,           \* how the handler saw each attempt end
    calls,             \* outbound provider calls, in the order they were started
    res,               \* responses sent
    thrown,            \* an exception left the handler
    email,             \* req.body.email of /check-email and /register
    existingCustomer,  \* what findCustomerByEmail returned to the handler
    shopify            \* the search and the create call to the shop

vars == <<vat_number, VATLAYER_API_KEY, pc, rawVat, now, startedAt, stalls, err1, errFb, d,
          promise, ms, left, timerAt, outcome, calls, res, thrown,
          email, existingCustomer, shopify>>

\* What the VAT handlers never touch.
ShopifyVars == <<email, existingCustomer, shopify>>

\* No request to /check-email or /register is under way.
ShopifyIdle ==
    /\ email = [type |-> "undefined"]
    /\ existingCustomer = [type |-> "null"]
    /\ shopify = [search |-> "none", create |-> "none"]

Labels == {"vies1", "vies2", "vatlayer"}
NoError == Err("", "", "", "")
NotYet == 0 - 1

AwaitPc(i) ==
    CASE i = "vies1" -> "await1" [] i = "vies2" -> "await2" [] i = "vatlayer" -> "await3"

SyncPcs == {"check0", "start1", "catch1", "start2", "check_fb", "start3"}
AwaitPcs == {"await1", "await2", "await3"}

\* Math.max(0, TIME_BUDGET_MS - (Date.now() - startedAt))
timeLeft == Max(0, TIME_BUDGET_MS - (now - startedAt))

\* Mutant: the local cap alone, whatever budget remains.
UncappedTimeout(cap) == cap

\* Math.min(cap, timeLeft())
AttemptTimeout(cap) == Min(cap, timeLeft)

Response(status, body) == [status |-> status, body |-> body]
Call(i, endpoint) == [by |-> i, to |-> endpoint]

Init ==
    /\ vat_number \in JsonValues
    /\ VATLAYER_API_KEY \in {"undefined", "key"}
    /\ pc = "entry"
    /\ rawVat = << >>
    /\ now = 0
    /\ startedAt = 0
    /\ stalls = 0
    /\ err1 = NoError
    /\ errFb = NoError
    /\ d = << >>
    /\ promise = [i \in Labels |-> "none"]
    /\ ms = [i \in Labels |-> NotYet]
    /\ left = [i \in Labels |-> NotYet]
    /\ timerAt = 0
    /\ outcome = [i \in Labels |-> "none"]
    /\ calls = << >>
    /\ res = << >>
    /\ thrown = FALSE
    /\ ShopifyIdle

\* ------------------------------------------------------------------- clock
\* While a race is awaited time passes, at most up to the race's timer.
Tick ==
    /\ pc \in AwaitPcs
    /\ now < timerAt
    /\ now' = Min(now + TickMs, timerAt)
    /\ UNCHANGED <<ShopifyVars, d, vat_number, VATLAYER_API_KEY, pc, rawVat, startedAt, stalls, err1, errFb,
                   promise, ms, left, timerAt, outcome, calls, res, thrown>>

\* The process is paused between two statements of the handler: briefly, or
\* for as long as the whole budget.
StallSteps == {TickMs, TIME_BUDGET_MS}

Stall ==
    /\ pc \in SyncPcs
    /\ stalls < MaxStalls
    /\ \E pause \in StallSteps : now' = now + pause
    /\ stalls' = stalls + 1
    /\ UNCHANGED <<ShopifyVars, d, vat_number, VATLAYER_API_KEY, pc, rawVat, startedAt, err1, errFb,
                   promise, ms, left, timerAt, outcome, calls, res, thrown>>

\* ----------------------------------------------------------- normalization
\* Lines 160-166.
Normalize ==
    /\ pc = "entry"
    /\ ~NormalizeThrowsOn(vat_number)
    /\ rawVat' = NormalizeVat(vat_number)
    /\ IF Rejected(rawVat')
       THEN /\ res' = Append(res, Response(400, BadRequestBody))
            /\ pc' = "done"
            /\ UNCHANGED startedAt
       ELSE /\ startedAt' = now
            /\ pc' = "check0"
            /\ UNCHANGED res
    /\ UNCHANGED <<ShopifyVars, d, vat_number, VATLAYER_API_KEY, now, stalls, err1, errFb, promise, ms, left,
                   timerAt, outcome, calls, thrown>>

\* Line 160 with a truthy vat_number that is no string: the TypeError leaves
\* the async handler, outside every try.  Express 4 drops the rejection and
\* never answers; Express 5 hands it to the default error handler (500).
NormalizeThrows ==
    /\ pc = "entry"
    /\ NormalizeThrowsOn(vat_number)
    /\ thrown' = TRUE
    /\ pc' = "threw"
    /\ \E forwarded \in BOOLEAN :
          res' = IF forwarded
                 THEN Append(res, Response(500, [error |-> "Internal Server Error"]))
                 ELSE res
    /\ UNCHANGED <<ShopifyVars, d, vat_number, VATLAYER_API_KEY, rawVat, now, startedAt, stalls, err1, errFb,
                   promise, ms, left, timerAt, outcome, calls>>


\* ------------------------------------------------- the handler's reactions
\* Mutant: total failure is answered with an error (fail-closed).
RejectUnavailable ==
    /\ res' = Append(res, Response(503, [error |-> "VAT validation unavailable"]))
    /\ pc' = "done"

\* return res.json({ valid: true, name: null, address: null })  (249, 279)
ApproveUnverified ==
    /\ res' = Append(res, Response(200, FailOpenBody))
    /\ pc' = "done"

\* Mutant: the response is sent without returning from the handler.
RespondAndGoOn(i, body) ==
    /\ res' = Append(res, Response(200, body))
    /\ pc' = "check_fb"
    /\ outcome' = [outcome EXCEPT ![i] = "ok"]
    /\ UNCHANGED <<err1, errFb>>

\* await withTimeout(...) returns: return res.json(result)  (255, 261, 272)
ReturnResult(i, body) ==
    /\ res' = Append(res, Response(200, body))
    /\ pc' = "done"
    /\ outcome' = [outcome EXCEPT ![i] = "ok"]
    /\ UNCHANGED <<err1, errFb>>

\* Mutant: a failed retry is handled like a failed first attempt.
CatchRetriesAgain(i, e, how) ==
    /\ outcome' = [outcome EXCEPT ![i] = how]
    /\ CASE i \in {"vies1", "vies2"} -> /\ err1' = e
                                        /\ pc' = "catch1"
                                        /\ UNCHANGED <<errFb, res>>
         [] i = "vatlayer" -> /\ errFb' = e
                              /\ ApproveUnverified
                              /\ UNCHANGED err1

\* await withTimeout(...) throws: the catch of that attempt  (256, 262, 273)
Catch(i, e, how) ==
    /\ outcome' = [outcome EXCEPT ![i] = how]
    /\ CASE i = "vies1" -> /\ err1' = e
                           /\ pc' = "catch1"
                           /\ UNCHANGED <<errFb, res>>
         [] i = "vies2" -> /\ pc' = "check_fb"
                           /\ UNCHANGED <<err1, errFb, res>>
         [] i = "vatlayer" -> /\ errFb' = e
                              /\ ApproveUnverified
                              /\ UNCHANGED err1

\* The operation of attempt i settles.  The race passes it on only while the
\* handler still awaits that race; afterwards the settlement is dropped.
OnResolved(i, body) ==
    IF pc = AwaitPc(i) THEN ReturnResult(i, body)
    ELSE UNCHANGED <<res, pc, outcome, err1, errFb>>

OnRejected(i, e) ==
    IF pc = AwaitPc(i) THEN Catch(i, e, "error")
    ELSE UNCHANGED <<res, pc, outcome, err1, errFb>>

\* Mutant: the race has no timer; only the operation can end it.
TimerNeverFires(i) ==
    /\ FALSE
    /\ UNCHANGED vars

\* Mutant: the timer also aborts the operation it raced against.
TimeoutAborts(i) ==
    /\ pc = AwaitPc(i)
    /\ now >= timerAt
    /\ Catch(i, TimeoutError(i), "timeout")
    /\ promise' = [promise EXCEPT ![i] = "rejected"]
    /\ UNCHANGED <<ShopifyVars, d, vat_number, VATLAYER_API_KEY, rawVat, now, startedAt, stalls,
                   ms, left, timerAt, calls, thrown>>

\* setTimeout(() => reject(new Error(`timeout_${label}`)), ms)  (188-190)
Timeout(i) ==
    /\ pc = AwaitPc(i)
    /\ now >= timerAt
    /\ Catch(i, TimeoutError(i), "timeout")
    /\ UNCHANGED <<ShopifyVars, d, vat_number, VATLAYER_API_KEY, rawVat, now, startedAt, stalls,
                   promise, ms, left, timerAt, calls, thrown>>

\* ------------------------------------------------------------- orchestration
\* Lines 247-250.
BudgetCheck ==
    /\ pc = "check0"
    /\ left' = [left EXCEPT !["vies1"] = timeLeft]
    /\ IF timeLeft <= 0
       THEN ApproveUnverified
       ELSE pc' = "start1" /\ UNCHANGED res
    /\ UNCHANGED <<ShopifyVars, d, vat_number, VATLAYER_API_KEY, rawVat, now, startedAt, stalls, err1, errFb,
                   promise, ms, timerAt, outcome, calls, thrown>>

\* Mutant: the race is not awaited; the handler goes on to the vatlayer step.
StartViesNoAwait(i, cap, at) ==
    /\ pc = at
    /\ ms' = [ms EXCEPT ![i] = AttemptTimeout(cap)]
    /\ timerAt' = now + ms'[i]
    /\ promise' = [promise EXCEPT ![i] = "wsdl"]
    /\ calls' = Append(calls, Call(i, "wsdl"))
    /\ outcome' = [outcome EXCEPT ![i] = "pending"]
    /\ pc' = "check_fb"
    /\ UNCHANGED <<ShopifyVars, d, vat_number, VATLAYER_API_KEY, rawVat, now, startedAt, stalls, err1,
                   errFb, left, res, thrown>>

\* viesCheck() is called and raced against its timer  (193-194, 185-191)
StartVies(i, cap, at) ==
    /\ pc = at
    /\ ms' = [ms EXCEPT ![i] = AttemptTimeout(cap)]
    /\ timerAt' = now + ms'[i]
    /\ promise' = [promise EXCEPT ![i] = "wsdl"]
    /\ calls' = Append(calls, Call(i, "wsdl"))
    /\ outcome' = [outcome EXCEPT ![i] = "pending"]
    /\ pc' = AwaitPc(i)
    /\ UNCHANGED <<ShopifyVars, d, vat_number, VATLAYER_API_KEY, rawVat, now, startedAt, stalls, err1, errFb,
                   left, res, thrown>>

\* Lines 253-254.
StartVies1 == StartVies("vies1", VIES1_CAP_MS, "start1")

\* Mutant: a retry starts a fresh budget.
RetryCheckResetsDeadline ==
    /\ pc = "catch1"
    /\ IF isServiceUnavailable(err1)
       THEN /\ left' = [left EXCEPT !["vies2"] = timeLeft]
            /\ pc' = IF timeLeft > 0 THEN "start2" ELSE "check_fb"
            /\ startedAt' = now
       ELSE /\ pc' = "check_fb"
            /\ UNCHANGED <<left, startedAt>>
    /\ UNCHANGED <<ShopifyVars, d, vat_number, VATLAYER_API_KEY, rawVat, now, stalls, err1, errFb,
                   promise, ms, timerAt, outcome, calls, res, thrown>>

\* Line 257: isServiceUnavailable(err1) && timeLeft() > 0
RetryCheck ==
    /\ pc = "catch1"
    /\ IF isServiceUnavailable(err1)
       THEN /\ left' = [left EXCEPT !["vies2"] = timeLeft]
            /\ pc' = IF timeLeft > 0 THEN "start2" ELSE "check_fb"
       ELSE /\ pc' = "check_fb"
            /\ UNCHANGED left
    /\ UNCHANGED <<ShopifyVars, d, vat_number, VATLAYER_API_KEY, rawVat, now, startedAt, stalls, err1, errFb,
                   promise, ms, timerAt, outcome, calls, res, thrown>>

\* Mutant: the retry gets the first attempt's cap.
StartVies2WithFirstCap == StartVies("vies2", VIES1_CAP_MS, "start2")

\* Lines 259-260.
StartVies2 == StartVies("vies2", VIES2_CAP_MS, "start2")

\* Line 268, and 278-279 when the budget is used up.
FallbackCheck ==
    /\ pc = "check_fb"
    /\ left' = [left EXCEPT !["vatlayer"] = timeLeft]
    /\ IF timeLeft > 0
       THEN pc' = "start3" /\ UNCHANGED res
       ELSE ApproveUnverified
    /\ UNCHANGED <<ShopifyVars, d, vat_number, VATLAYER_API_KEY, rawVat, now, startedAt, stalls, err1, errFb,
                   promise, ms, timerAt, outcome, calls, thrown>>

\* Mutant: the guard of line 205 is gone.
KeyNeverMissing == FALSE

\* !VATLAYER_API_KEY
KeyMissing == VATLAYER_API_KEY \in {"undefined", ""}

\* Lines 270-271 with 205-210: vatlayerCheck() throws at once without a key
\* (the race rejects before any timer can run), else fetches the current
\* endpoint.
StartVatlayer ==
    /\ pc = "start3"
    /\ ms' = [ms EXCEPT !["vatlayer"] = AttemptTimeout(VATLAYER_CAP_MS)]
    /\ timerAt' = now + ms'["vatlayer"]
    /\ IF KeyMissing
       THEN /\ promise' = [promise EXCEPT !["vatlayer"] = "rejected"]
            /\ outcome' = [outcome EXCEPT !["vatlayer"] = "error"]
            /\ errFb' = Err("", "", "", "vatlayer_missing_key")
            /\ ApproveUnverified
            /\ UNCHANGED calls
       ELSE /\ promise' = [promise EXCEPT !["vatlayer"] = "current"]
            /\ calls' = Append(calls, Call("vatlayer", "current"))
            /\ outcome' = [outcome EXCEPT !["vatlayer"] = "pending"]
            /\ pc' = "await3"
            /\ UNCHANGED <<res, errFb>>
    /\ UNCHANGED <<ShopifyVars, d, vat_number, VATLAYER_API_KEY, rawVat, now, startedAt, stalls, err1,
                   left, thrown>>


\* ------------------------------------------------------- provider operations
\* They run on their own: a race that timed out does not stop them.
OpFrame == <<vat_number, VATLAYER_API_KEY, rawVat, now, startedAt, stalls, ms, left,
             timerAt, thrown, ShopifyVars>>

ViesLabels == {"vies1", "vies2"}

\* Line 194 resolves, line 195 sends the checkVat call.
WsdlOk(i) ==
    /\ promise[i] = "wsdl"
    /\ promise' = [promise EXCEPT ![i] = "checkVat"]
    /\ calls' = Append(calls, Call(i, "checkVat"))
    /\ UNCHANGED <<res, pc, outcome, err1, errFb>>
    /\ UNCHANGED <<d, OpFrame>>

\* Line 194 rejects.
WsdlFail(i) ==
    /\ promise[i] = "wsdl"
    /\ promise' = [promise EXCEPT ![i] = "rejected"]
    /\ \E e \in WsdlErrors : OnRejected(i, e)
    /\ UNCHANGED calls
    /\ UNCHANGED <<d, OpFrame>>

\* Lines 195-201.
CheckVatOk(i) ==
    /\ promise[i] = "checkVat"
    /\ promise' = [promise EXCEPT ![i] = "resolved"]
    /\ \E result \in ViesPayloads : OnResolved(i, ViesResult(result))
    /\ UNCHANGED calls
    /\ UNCHANGED <<d, OpFrame>>

\* Line 195 rejects, or line 197 throws on a malformed result.
CheckVatFail(i) ==
    /\ promise[i] = "checkVat"
    /\ promise' = [promise EXCEPT ![i] = "rejected"]
    /\ \E e \in CheckVatErrors : OnRejected(i, e)
    /\ UNCHANGED calls
    /\ UNCHANGED <<d, OpFrame>>

\* Lines 210-220: r1.ok and the JSON parses.
CurrentOk ==
    /\ promise["vatlayer"] = "current"
    /\ promise' = [promise EXCEPT !["vatlayer"] = "resolved"]
    /\ \E json \in VatlayerPayloads :
          /\ d' = IF pc = "await3" THEN <<json>> ELSE d
          /\ OnResolved("vatlayer", VatlayerResult(json, "vatlayer"))
    /\ UNCHANGED calls
    /\ UNCHANGED OpFrame

\* Mutant: vatlayerCheck gives up after the current endpoint.
CurrentFailGivesUp ==
    /\ promise["vatlayer"] = "current"
    /\ promise' = [promise EXCEPT !["vatlayer"] = "rejected"]
    /\ OnRejected("vatlayer", Err("", "", "", "vatlayer_unavailable"))
    /\ UNCHANGED calls
    /\ UNCHANGED <<d, OpFrame>>

\* Lines 210-228: r1 is not ok, or fetch / json() threw: on to the legacy endpoint.
CurrentFail ==
    /\ promise["vatlayer"] = "current"
    /\ promise' = [promise EXCEPT !["vatlayer"] = "legacy"]
    /\ calls' = Append(calls, Call("vatlayer", "legacy"))
    /\ UNCHANGED <<res, pc, outcome, err1, errFb>>
    /\ UNCHANGED <<d, OpFrame>>

\* Lines 228-238.
LegacyOk ==
    /\ promise["vatlayer"] = "legacy"
    /\ promise' = [promise EXCEPT !["vatlayer"] = "resolved"]
    /\ \E json \in VatlayerPayloads :
          /\ d' = IF pc = "await3" THEN <<json>> ELSE d
          /\ OnResolved("vatlayer", VatlayerResult(json, "vatlayer-legacy"))
    /\ UNCHANGED calls
    /\ UNCHANGED OpFrame

\* Lines 228-241: throw new Error("vatlayer_unavailable")
LegacyFail ==
    /\ promise["vatlayer"] = "legacy"
    /\ promise' = [promise EXCEPT !["vatlayer"] = "rejected"]
    /\ OnRejected("vatlayer", Err("", "", "", "vatlayer_unavailable"))
    /\ UNCHANGED calls
    /\ UNCHANGED <<d, OpFrame>>

\* ------------------------------------------------------------- specification
Next ==
    \/ Normalize
    \/ NormalizeThrows
    \/ Tick
    \/ Stall
    \/ BudgetCheck
    \/ StartVies1
    \/ RetryCheck
    \/ StartVies2
    \/ FallbackCheck
    \/ StartVatlayer
    \/ \E i \in Labels : Timeout(i)
    \/ \E i \in ViesLabels : WsdlOk(i)
    \/ \E i \in ViesLabels : WsdlFail(i)
    \/ \E i \in ViesLabels : CheckVatOk(i)
    \/ \E i \in ViesLabels : CheckVatFail(i)
    \/ CurrentOk
    \/ CurrentFail
    \/ LegacyOk
    \/ LegacyFail

Spec == Init /\ [][Next]_vars

\* The event loop runs every continuation that is ready, the clock advances
\* and a due timer fires.  Nothing obliges a provider operation to settle.
FairSpec ==
    /\ Spec
    /\ WF_vars(Normalize)
    /\ WF_vars(BudgetCheck)
    /\ WF_vars(StartVies1)
    /\ WF_vars(RetryCheck)
    /\ WF_vars(StartVies2)
    /\ WF_vars(FallbackCheck)
    /\ WF_vars(StartVatlayer)
    /\ WF_vars(Tick)
    /\ WF_vars(\E i \in Labels : Timeout(i))

\* ------------------------------------------- the single-provider revisions
\* Two earlier revisions of POST /api/validate-vat ask one provider only, with
\* no timer, no retry and no fallback: VIES-only (unnamed/part_000 and
\* part_001, lines 15-41) and vatlayer-only (server.js, lines 14-33).  They
\* use vat_number, pc, promise, calls, res and thrown; pc starts at the
\* revision's handler.
SingleFrame == <<VATLAYER_API_KEY, rawVat, now, startedAt, stalls, err1, errFb, d, ms,
                 left, timerAt, outcome, ShopifyVars>>

InitSingle ==
    /\ vat_number \in JsonValues
    /\ VATLAYER_API_KEY \in {"undefined", "key"}
    /\ pc \in {"vies_only", "vatlayer_only"}
    /\ rawVat = << >>
    /\ now = 0
    /\ startedAt = 0
    /\ stalls = 0
    /\ err1 = NoError
    /\ errFb = NoError
    /\ d = << >>
    /\ promise = [i \in Labels |-> "none"]
    /\ ms = [i \in Labels |-> NotYet]
    /\ left = [i \in Labels |-> NotYet]
    /\ timerAt = 0
    /\ outcome = [i \in Labels |-> "none"]
    /\ calls = << >>
    /\ res = << >>
    /\ thrown = FALSE
    /\ ShopifyIdle

\* { error: "Fehler bei der VAT-Prüfung über VIES" }, { error: "Fehler beim
\* Abruf der VAT-Daten" }, { error: "VAT-Nummer fehlt" }
ViesOnlyErrorBody == [error |-> "Fehler bei der VAT-Prüfung über VIES"]
VatlayerOnlyErrorBody == [error |-> "Fehler beim Abruf der VAT-Daten"]
MissingVatBody == [error |-> "VAT-Nummer fehlt"]

\* { valid: result.valid, name: result.name || null, address: result.address || null }
ViesOnlyResult(result) ==
    [valid |-> result.valid, name |-> OrNull(result.name),
     address |-> OrNull(result.address)]

\* Mutant: the catch answers with the fail-open default.
CatchFailOpen(body) ==
    /\ res' = Append(res, Response(200, FailOpenBody))
    /\ pc' = "done"

\* catch: res.status(500).json({ error })   (part_000:37-40, server.js:29-32)
CatchFailClosed(body) ==
    /\ res' = Append(res, Response(500, body))
    /\ pc' = "done"

\* part_000:16-28.  !vatNumber || vatNumber.length < 3 answers 400.  A truthy
\* non-string has no length (undefined < 3 is false) and no slice: the
\* TypeError of line 22 is outside the try and leaves the handler.
ViesOnlyValidate ==
    /\ pc = "vies_only"
    /\ IF Falsy(vat_number) \/ (vat_number.type = "string" /\ Len(vat_number.chars) < 3)
       THEN /\ res' = Append(res, Response(400, BadRequestBody))
            /\ pc' = "done"
            /\ UNCHANGED <<promise, calls, thrown>>
       ELSE IF vat_number.type # "string"
       THEN /\ thrown' = TRUE
            /\ pc' = "threw"
            /\ \E forwarded \in BOOLEAN :
                  res' = IF forwarded
                         THEN Append(res, Response(500, [error |-> "Internal Server Error"]))
                         ELSE res
            /\ UNCHANGED <<promise, calls>>
       ELSE /\ pc' = "vies_only_wsdl"
            /\ promise' = [promise EXCEPT !["vies1"] = "wsdl"]
            /\ calls' = Append(calls, Call("vies1", "wsdl"))
            /\ UNCHANGED <<res, thrown>>
    /\ UNCHANGED <<vat_number, SingleFrame>>

\* part_000:28 resolves, line 29 sends checkVat.
ViesOnlyWsdlOk ==
    /\ pc = "vies_only_wsdl"
    /\ pc' = "vies_only_checkVat"
    /\ promise' = [promise EXCEPT !["vies1"] = "checkVat"]
    /\ calls' = Append(calls, Call("vies1", "checkVat"))
    /\ UNCHANGED <<vat_number, res, thrown, SingleFrame>>

\* part_000:28 rejects.
ViesOnlyWsdlFail ==
    /\ pc = "vies_only_wsdl"
    /\ promise' = [promise EXCEPT !["vies1"] = "rejected"]
    /\ CatchFailClosed(ViesOnlyErrorBody)
    /\ UNCHANGED <<vat_number, calls, thrown, SingleFrame>>

\* part_000:29-36.
ViesOnlyCheckVatOk ==
    /\ pc = "vies_only_checkVat"
    /\ promise' = [promise EXCEPT !["vies1"] = "resolved"]
    /\ \E result \in ViesPayloads :
          res' = Append(res, Response(200, ViesOnlyResult(result)))
    /\ pc' = "done"
    /\ UNCHANGED <<vat_number, calls, thrown, SingleFrame>>

\* part_000:29 rejects, or reading result throws inside the try.
ViesOnlyCheckVatFail ==
    /\ pc = "vies_only_checkVat"
    /\ promise' = [promise EXCEPT !["vies1"] = "rejected"]
    /\ CatchFailClosed(ViesOnlyErrorBody)
    /\ UNCHANGED <<vat_number, calls, thrown, SingleFrame>>

\* server.js:15-24.  Only !vatNumber answers 400; any other value is put into
\* the URL and fetched.
VatlayerOnlyValidate ==
    /\ pc = "vatlayer_only"
    /\ IF Falsy(vat_number)
       THEN /\ res' = Append(res, Response(400, MissingVatBody))
            /\ pc' = "done"
            /\ UNCHANGED <<promise, calls>>
       ELSE /\ pc' = "vatlayer_only_fetch"
            /\ promise' = [promise EXCEPT !["vatlayer"] = "legacy"]
            /\ calls' = Append(calls, Call("vatlayer", "legacy"))
            /\ UNCHANGED res
    /\ UNCHANGED <<vat_number, thrown, SingleFrame>>

\* server.js:24-28: the fetch resolves and the body parses; res.json(data).
VatlayerOnlyOk ==
    /\ pc = "vatlayer_only_fetch"
    /\ promise' = [promise EXCEPT !["vatlayer"] = "resolved"]
    /\ \E data \in VatlayerPayloads : res' = Append(res, Response(200, data))
    /\ pc' = "done"
    /\ UNCHANGED <<vat_number, calls, thrown, SingleFrame>>

\* server.js:24-25 throws: network error or unparseable body.
VatlayerOnlyFail ==
    /\ pc = "vatlayer_only_fetch"
    /\ promise' = [promise EXCEPT !["vatlayer"] = "rejected"]
    /\ CatchFailClosed(VatlayerOnlyErrorBody)
    /\ UNCHANGED <<vat_number, calls, thrown, SingleFrame>>

NextSingle ==
    \/ ViesOnlyValidate
    \/ ViesOnlyWsdlOk
    \/ ViesOnlyWsdlFail
    \/ ViesOnlyCheckVatOk
    \/ ViesOnlyCheckVatFail
    \/ VatlayerOnlyValidate
    \/ VatlayerOnlyOk
    \/ VatlayerOnlyFail

SpecSingle == InitSingle /\ [][NextSingle]_vars

\* ------------------------------------------------ vatlayerCheck's answers
\* The vatlayer step on its own, over every combination of the fields that
\* vatlayerCheck reads.  "true" / "false" are the JSON booleans, "1" the JSON
\* number 1, "undefined" an absent field, "" the empty string.
VatlayerAnswers ==
    [valid : {"true", "false", "undefined", "1"},
     validation_status : {"valid", "invalid", "undefined"},
     format_valid : {"true", "false", "undefined"},
     company_name : {"ACME GmbH", "", "undefined"},
     company_address : {"Hauptstr. 1", "", "undefined"}]

\* The request "ddd" whose first VIES attempt was refused at once and whose
\* vatlayer attempt has just fetched the current endpoint (line 271 with 210).
InitVatlayer ==
    /\ vat_number = [type |-> "string", chars |-> <<"d", "d", "d">>]
    /\ VATLAYER_API_KEY = "key"
    /\ pc = "await3"
    /\ rawVat = <<"D", "D", "D">>
    /\ now = 0
    /\ startedAt = 0
    /\ stalls = 0
    /\ err1 = ErrConnRefused
    /\ errFb = NoError
    /\ d = << >>
    /\ promise = [i \in Labels |-> CASE i = "vies1" -> "rejected"
                                     [] i = "vies2" -> "none"
                                     [] i = "vatlayer" -> "current"]
    /\ ms = [i \in Labels |-> IF i = "vies2" THEN NotYet ELSE 8000]
    /\ left = [i \in Labels |-> IF i = "vies2" THEN NotYet ELSE 20000]
    /\ timerAt = 8000
    /\ outcome = [i \in Labels |-> CASE i = "vies1" -> "error"
                                     [] i = "vies2" -> "none"
                                     [] i = "vatlayer" -> "pending"]
    /\ calls = <<Call("vies1", "wsdl"), Call("vatlayer", "current")>>
    /\ res = << >>
    /\ thrown = FALSE
    /\ ShopifyIdle

\* Lines 210-220 and 272: r1.ok, the body parses, the result is passed on.
CurrentAnswers ==
    /\ pc = "await3"
    /\ promise["vatlayer"] = "current"
    /\ promise' = [promise EXCEPT !["vatlayer"] = "resolved"]
    /\ \E json \in VatlayerAnswers :
          /\ d' = <<json>>
          /\ ReturnResult("vatlayer", VatlayerResult(json, "vatlayer"))
    /\ UNCHANGED calls
    /\ UNCHANGED OpFrame

\* Lines 228-238 and 272.
LegacyAnswers ==
    /\ pc = "await3"
    /\ promise["vatlayer"] = "legacy"
    /\ promise' = [promise EXCEPT !["vatlayer"] = "resolved"]
    /\ \E json \in VatlayerAnswers :
          /\ d' = <<json>>
          /\ ReturnResult("vatlayer", VatlayerResult(json, "vatlayer-legacy"))
    /\ UNCHANGED calls
    /\ UNCHANGED OpFrame

NextVatlayer ==
    \/ CurrentAnswers
    \/ CurrentFail
    \/ LegacyAnswers
    \/ LegacyFail

SpecVatlayer == InitVatlayer /\ [][NextVatlayer]_vars

\* ------------------------------------------- /check-email and /register
\* The hardened revision (server.js 298-424).  Each handler makes its calls
\* to the shop one after the other, with no timer.
ShopFrame == <<vat_number, VATLAYER_API_KEY, rawVat, now, startedAt, stalls, err1, errFb,
               d, promise, ms, left, timerAt, outcome, thrown>>

InitShopify ==
    /\ vat_number = [type |-> "undefined"]
    /\ VATLAYER_API_KEY = "undefined"
    /\ pc \in {"check_email", "register"}
    /\ rawVat = << >>
    /\ now = 0
    /\ startedAt = 0
    /\ stalls = 0
    /\ err1 = NoError
    /\ errFb = NoError
    /\ d = << >>
    /\ promise = [i \in Labels |-> "none"]
    /\ ms = [i \in Labels |-> NotYet]
    /\ left = [i \in Labels |-> NotYet]
    /\ timerAt = 0
    /\ outcome = [i \in Labels |-> "none"]
    /\ calls = << >>
    /\ res = << >>
    /\ thrown = FALSE
    /\ email \in JsonValues
    /\ existingCustomer = [type |-> "null"]
    /\ shopify = [search |-> "none", create |-> "none"]

\* data.customers[0] of a search that found the email, and data.customer of
\* a successful creation
FoundCustomer == [type |-> "object", id |-> 1]
CreatedCustomer == [type |-> "object", id |-> 2]
Null == [type |-> "null"]

\* How the search can end: 200 with a match, 200 with customers: [], a non-OK
\* status, a rejected fetch, a body that does not parse or has no customers.
SearchAnswers == {"found", "empty", "not_ok", "network_error", "malformed"}

\* How the creation can end: 201 with data.customer, 422 with data.errors, a
\* 2xx body without customer, a rejected fetch, a body that does not parse.
CreateAnswers == {"created", "rejected", "no_customer", "network_error", "malformed"}

\* Mutant: findCustomerByEmail without try/catch and without the ok test, as
\* in unnamed/part_000:54-66.
findCustomerByEmailNoCatch(answer) ==
    CASE answer = "found" -> [threw |-> FALSE, value |-> FoundCustomer]
      [] answer = "empty" -> [threw |-> FALSE, value |-> Null]
      [] OTHER            -> [threw |-> TRUE, value |-> Null]

\* Lines 298-320: what the function hands back for each end of the search.
findCustomerByEmail(answer) ==
    CASE answer = "found"         -> [threw |-> FALSE, value |-> FoundCustomer]
      [] answer = "empty"         -> [threw |-> FALSE, value |-> Null]
      [] answer = "not_ok"        -> [threw |-> FALSE, value |-> Null]
      [] answer = "network_error" -> [threw |-> FALSE, value |-> Null]
      [] answer = "malformed"     -> [threw |-> FALSE, value |-> Null]

\* Lines 324-334: !email || typeof email !== "string" answers 400.
CheckEmailValidate ==
    /\ pc = "check_email"
    /\ IF Falsy(email) \/ email.type # "string"
       THEN /\ res' = Append(res, Response(400, [error |-> "Ungültige E-Mail"]))
            /\ pc' = "done"
            /\ UNCHANGED <<calls, shopify>>
       ELSE /\ pc' = "check_email_lookup"
            /\ calls' = Append(calls, Call("check-email", "search"))
            /\ shopify' = [shopify EXCEPT !.search = "pending"]
            /\ UNCHANGED res
    /\ UNCHANGED <<email, existingCustomer, ShopFrame>>

\* Lines 334-340.
CheckEmailLookup ==
    /\ pc = "check_email_lookup"
    /\ \E answer \in SearchAnswers :
          /\ shopify' = [shopify EXCEPT !.search = answer]
          /\ LET r == findCustomerByEmail(answer)
             IN  IF r.threw
                 THEN /\ res' = Append(res, Response(500, [error |-> "Fehler beim E-Mail-Abgleich"]))
                      /\ UNCHANGED existingCustomer
                 ELSE /\ existingCustomer' = r.value
                      /\ res' = Append(res, Response(200, [exists |-> ~Falsy(r.value)]))
    /\ pc' = "done"
    /\ UNCHANGED <<email, calls, ShopFrame>>

\* Lines 344-348: no validation; findCustomerByEmail(req.body.email).
RegisterStart ==
    /\ pc = "register"
    /\ pc' = "register_lookup"
    /\ calls' = Append(calls, Call("register", "search"))
    /\ shopify' = [shopify EXCEPT !.search = "pending"]
    /\ UNCHANGED <<email, existingCustomer, res, ShopFrame>>

\* Mutant: the handler does not look at what the lookup returned.
RegisterLookupAlwaysCreates ==
    /\ pc = "register_lookup"
    /\ \E answer \in SearchAnswers :
          /\ existingCustomer' = findCustomerByEmail(answer).value
          /\ calls' = Append(calls, Call("register", "create"))
          /\ shopify' = [search |-> answer, create |-> "pending"]
          /\ pc' = "register_create"
          /\ UNCHANGED res
    /\ UNCHANGED <<email, ShopFrame>>

\* Lines 348-403, catch 420-423.
RegisterLookup ==
    /\ pc = "register_lookup"
    /\ \E answer \in SearchAnswers :
          LET r == findCustomerByEmail(answer)
          IN  /\ IF r.threw
                 THEN /\ res' = Append(res, Response(500, [error |-> "Server-Fehler."]))
                      /\ pc' = "done"
                      /\ shopify' = [shopify EXCEPT !.search = answer]
                      /\ UNCHANGED <<existingCustomer, calls>>
                 ELSE /\ existingCustomer' = r.value
                      /\ IF ~Falsy(r.value)
                         THEN /\ res' = Append(res, Response(200,
                                    [success |-> TRUE, message |-> "Kunde existiert bereits.",
                                     customer |-> r.value]))
                              /\ pc' = "done"
                              /\ shopify' = [shopify EXCEPT !.search = answer]
                              /\ UNCHANGED calls
                         ELSE /\ calls' = Append(calls, Call("register", "create"))
                              /\ shopify' = [search |-> answer, create |-> "pending"]
                              /\ pc' = "register_create"
                              /\ UNCHANGED res
    /\ UNCHANGED <<email, ShopFrame>>

\* Lines 396-423.
RegisterCreate ==
    /\ pc = "register_create"
    /\ \E answer \in CreateAnswers :
          /\ shopify' = [shopify EXCEPT !.create = answer]
          /\ res' = Append(res,
                CASE answer = "created" ->
                        Response(200, [success |-> TRUE, customer |-> CreatedCustomer])
                  [] answer = "rejected" ->
                        Response(422, [error |-> "data.errors"])
                  [] answer = "no_customer" ->
                        Response(200, [error |-> "Fehler bei der Registrierung. Überprüfe API-Berechtigungen oder Pflichtfelder."])
                  [] OTHER ->
                        Response(500, [error |-> "Server-Fehler."]))
    /\ pc' = "done"
    /\ UNCHANGED <<email, existingCustomer, calls, ShopFrame>>

NextShopify ==
    \/ CheckEmailValidate
    \/ CheckEmailLookup
    \/ RegisterStart
    \/ RegisterLookup
    \/ RegisterCreate

SpecShopify == InitShopify /\ [][NextShopify]_vars

TypeOK ==
    /\ pc \in {"entry", "threw", "done"} \cup SyncPcs \cup AwaitPcs
    /\ now \in Nat /\ startedAt \in Nat /\ timerAt \in Nat
    /\ \A i \in Labels : ms[i] \in Int /\ left[i] \in Int
    /\ Len(res) \in 0..2


\* ----------------------------------------------------------------- helpers
Finished == pc \in {"done", "threw"}

CallsBy(i) == {k \in 1..Len(calls) : calls[k].by = i}
InvocationsOf(i) == {k \in CallsBy(i) : calls[k].to \in {"wsdl", "current"}}

\* The budget left at the current clock reading, from the source's constants.
Remaining ==
    IF now - startedAt >= 20000 THEN 0 ELSE 20000 - (now - startedAt)

\* Errors that carry one of the markers MS_UNAVAILABLE, SERVICE_UNAVAILABLE,
\* temporarily, timeout in the text isServiceUnavailable looks at.
TransientErrors ==
    {ErrMsUnavailable, ErrGateway} \cup {TimeoutError(i) : i \in Labels}
PermanentErrors == {ErrInvalidInput, ErrConnRefused, ErrMalformed}

\* The identifier a raw string normalizes to has fewer than 3 characters:
\* upper-casing keeps the length, stripping drops the blanks.
NonBlank(chars) == {k \in 1..Len(chars) : chars[k] # " "}
ShortIdentifier(v) ==
    \/ v.type = "undefined"
    \/ v.type = "string" /\ Cardinality(NonBlank(v.chars)) < 3
ValidIdentifier(v) ==
    v.type = "string" /\ Cardinality(NonBlank(v.chars)) >= 3

\* ------------------------------------------------------------------ claims

\* C1: a request whose vat_number is missing, or is a string that normalizes
\* to fewer than 3 characters, is answered 400 with an error body, and no
\* provider call is ever started for it.
C1_ShortIdentifierRejected ==
    (pc # "entry" /\ ShortIdentifier(vat_number)) =>
        /\ res = <<[status |-> 400, body |-> [error |-> "Ungültige VAT-Nummer"]]>>
        /\ calls = << >>
        /\ \A i \in Labels : promise[i] = "none" /\ ms[i] = NotYet

C1_Witness ==
    /\ pc = "done"
    /\ vat_number = [type |-> "string", chars |-> <<"d", " ", "d">>]
    /\ Len(res) = 1 /\ res[1].status = 400

\* C2: when the first VIES attempt succeeds before its timer, the response is
\* that attempt's result with source vies, and neither a retry nor a vatlayer
\* call is ever made.
C2_FirstSuccessIsFinal ==
    outcome["vies1"] = "ok" =>
        /\ Len(res) = 1
        /\ res[1].status = 200
        /\ DOMAIN res[1].body = {"valid", "name", "address", "source"}
        /\ res[1].body.source = "vies"
        /\ res[1].body.valid \in BOOLEAN
        /\ res[1].body.name \in {"ACME GmbH", "null"}
        /\ res[1].body.address \in {"Hauptstr. 1", "null"}
        /\ CallsBy("vies2") = {} /\ CallsBy("vatlayer") = {}
        /\ promise["vies2"] = "none" /\ promise["vatlayer"] = "none"
        /\ pc = "done"

C2_Witness ==
    /\ outcome["vies1"] = "ok"
    /\ pc = "done"
    /\ res[1].body = [valid |-> TRUE, name |-> "ACME GmbH", address |-> "null",
                      source |-> "vies"]


\* C3: when the first VIES attempt fails with a temporary-unavailability
\* error while budget remains, the handler goes on to the retry; the retry is
\* started exactly once, and before any vatlayer call.
C3_RetryDecision ==
    (pc = "catch1" /\ pc' # "catch1" /\ err1 \in TransientErrors /\ Remaining > 0)
        => pc' = "start2"

C3_RetryOnce ==
    (pc \notin {"entry", "check0", "start1", "await1", "catch1", "start2"}
        /\ err1 \in TransientErrors /\ left["vies2"] > 0) =>
        /\ Cardinality(InvocationsOf("vies2")) = 1
        /\ Cardinality(InvocationsOf("vies1")) = 1
        /\ \A k \in CallsBy("vatlayer") : \A j \in InvocationsOf("vies2") : j < k

C3_OneRetryBeforeSecondary == [][C3_RetryDecision]_vars /\ []C3_RetryOnce

C3_Witness ==
    /\ err1 = ErrMsUnavailable
    /\ left["vies2"] > 0
    /\ InvocationsOf("vies2") # {}
    /\ CallsBy("vatlayer") # {}

\* C4: after a permanent failure of the first VIES attempt VIES is not called
\* again: the handler is at the vatlayer step or beyond, without a retry.
C4_NoRetryAfterPermanent ==
    (outcome["vies1"] = "error" /\ err1 \in PermanentErrors /\ pc # "catch1") =>
        /\ CallsBy("vies2") = {}
        /\ ms["vies2"] = NotYet /\ promise["vies2"] = "none"
        /\ pc \in {"check_fb", "start3", "await3", "done"}

C4_Witness ==
    /\ err1 = ErrInvalidInput
    /\ CallsBy("vatlayer") # {}
    /\ CallsBy("vies2") = {}

\* C5: a request with a valid identifier for which no attempt produced a
\* result is answered 200 {valid: true, name: null, address: null}.
C5_FailOpen ==
    (pc = "done" /\ ValidIdentifier(vat_number) /\ \A i \in Labels : outcome[i] # "ok") =>
        res = <<[status |-> 200,
                 body |-> [valid |-> TRUE, name |-> "null", address |-> "null"]]>>

C5_Witness ==
    /\ pc = "done"
    /\ outcome = [i \in Labels |-> "timeout"]
    /\ Len(res) = 1

\* C6: a finished request was answered, with 400 exactly when normalization
\* rejects the identifier and with 200 otherwise; never with another status.
C6_Only400Or200 ==
    Finished =>
        /\ Len(res) = 1
        /\ res[1].status = IF Len(rawVat) < 3 THEN 400 ELSE 200

\* C7: the timeouts allotted to the attempts of one request add up to at
\* most the 20000 ms budget.
AllottedMs(i) == IF ms[i] = NotYet THEN 0 ELSE ms[i]
SumOfTimeouts == AllottedMs("vies1") + AllottedMs("vies2") + AllottedMs("vatlayer")

C7_SumOfTimeoutsWithinBudget == SumOfTimeouts <= 20000

\* C7 as amended: an attempt is awaited no longer than to startedAt + 20000 ms
\* (one started at or past that instant is allotted 0 ms), so the time spent
\* awaiting the attempts of a request fits in the budget; the sum of the
\* allotted timeouts is bounded by the three caps (22000 ms), not by the budget.
Awaited == CHOOSE i \in Labels : pc = AwaitPc(i)

C7_AttemptsWithinBudget ==
    /\ pc \in AwaitPcs =>
          /\ now <= timerAt
          /\ timerAt <= startedAt + 20000 \/ ms[Awaited] = 0
    /\ SumOfTimeouts <= 8000 + 6000 + 8000

C7_Witness ==
    /\ pc = "await3"
    /\ SumOfTimeouts = 22000
    /\ timerAt <= startedAt + 20000

\* C8: every started attempt has a strictly positive timeout.
C8_PositiveTimeout ==
    \A i \in Labels : ms[i] # NotYet => ms[i] > 0

\* C9: the timeout an attempt is started with is min(cap, remaining budget),
\* with caps 8000 (first VIES attempt), 6000 (retry) and 8000 (vatlayer).
CapOf(i) == IF i = "vies2" THEN 6000 ELSE 8000

C9_TimeoutOnStart ==
    \A i \in Labels :
        (ms[i] = NotYet /\ ms'[i] # NotYet) =>
            /\ ms'[i] = IF CapOf(i) <= Remaining THEN CapOf(i) ELSE Remaining
            /\ timerAt' = now + ms'[i]

C9_TimeoutIsMinOfCapAndRemaining == [][C9_TimeoutOnStart]_vars

C9_Witness ==
    /\ ms["vies1"] = 8000
    /\ ms["vies2"] = 6000
    /\ ms["vatlayer"] = 6000

\* C10: a finished request has exactly one response and no exception left
\* the handler; a response, once sent, is never followed by another one nor
\* changed by operations that settle later.
C10_OneResponse ==
    /\ Len(res) <= 1
    /\ ~thrown
    /\ Finished => Len(res) = 1

\* The part of C10 about abandoned operations: after the response, whatever
\* settles later leaves the response and the handler as they are.
LateSettlementDropped ==
    [][(pc = "done" /\ Len(res) = 1) => (res' = res /\ pc' = pc /\ thrown' = thrown)]_vars

LateSettlementWitness ==
    /\ pc = "done"
    /\ outcome["vies1"] = "timeout"
    /\ promise["vies1"] \in {"resolved", "rejected"}

\* C11: the attempts of a request are started in the order first VIES attempt,
\* VIES retry, vatlayer; each only after the handler saw the previous one
\* fail or time out; vatlayer never before VIES was tried; and the handler
\* awaits at most one attempt at a time.
Started(i) == ms[i] # NotYet
Over(i) == outcome[i] \in {"error", "timeout"}
FirstCallOf(i) == CHOOSE k \in InvocationsOf(i) : \A j \in InvocationsOf(i) : k <= j

C11_StrictlySequential ==
    /\ Started("vies2") => (Started("vies1") /\ Over("vies1"))
    /\ Started("vatlayer") =>
          /\ Started("vies1") /\ Over("vies1")
          /\ Started("vies2") => Over("vies2")
    /\ Cardinality({i \in Labels : outcome[i] = "pending"}) <= 1
    /\ \A i \in Labels : outcome[i] = "pending" <=> pc = AwaitPc(i)
    /\ InvocationsOf("vies2") # {} =>
          (InvocationsOf("vies1") # {} /\ FirstCallOf("vies1") < FirstCallOf("vies2"))
    /\ CallsBy("vatlayer") # {} =>
          /\ InvocationsOf("vies1") # {}
          /\ \A k \in CallsBy("vatlayer") : FirstCallOf("vies1") < k
          /\ \A k \in CallsBy("vatlayer") : \A j \in InvocationsOf("vies2") : j < k
    /\ pc = "done" => \A i \in Labels : outcome[i] # "pending"

C11_Witness ==
    /\ pc = "done"
    /\ Over("vies1") /\ Over("vies2")
    /\ outcome["vatlayer"] = "ok"
    /\ Len(res) = 1

\* C12: a request with a valid identifier is eventually answered, whether or
\* not any provider operation ever settles, as long as the timers fire.
C12_EventuallyDone ==
    ValidIdentifier(vat_number) ~> (pc = "done" /\ Len(res) = 1)

\* Answered although none of the three operations ever settled.
C12_Witness ==
    /\ pc = "done"
    /\ Len(res) = 1
    /\ outcome = [i \in Labels |-> "timeout"]
    /\ promise = [i \in Labels |-> IF i = "vatlayer" THEN "current" ELSE "wsdl"]

\* The endpoints vatlayerCheck has fetched so far, in the order of the fetches.
VatlayerEndpoints ==
    LET own == SelectSeq(calls, LAMBDA c : c.by = "vatlayer")
    IN  [k \in 1..Len(own) |-> own[k].to]

SourcesSent ==
    {res[k].body.source : k \in {j \in 1..Len(res) : "source" \in DOMAIN res[j].body}}

\* C13: vatlayerCheck fetches the current endpoint first and the legacy one
\* only after the current one failed, each at most once; the source of the
\* result names the endpoint that answered, and when neither answers the
\* attempt fails with vatlayer_unavailable.
C13_EndpointOrder ==
    /\ VatlayerEndpoints \in {<< >>, <<"current">>, <<"current", "legacy">>}
    /\ promise["vatlayer"] = "current" => VatlayerEndpoints = <<"current">>
    /\ promise["vatlayer"] = "legacy" => VatlayerEndpoints = <<"current", "legacy">>
    /\ "vatlayer" \in SourcesSent =>
          VatlayerEndpoints = <<"current">> /\ promise["vatlayer"] = "resolved"
    /\ "vatlayer-legacy" \in SourcesSent =>
          VatlayerEndpoints = <<"current", "legacy">> /\ promise["vatlayer"] = "resolved"
    /\ (promise["vatlayer"] = "rejected" /\ VATLAYER_API_KEY = "key") =>
          VatlayerEndpoints = <<"current", "legacy">>
    /\ (outcome["vatlayer"] = "error" /\ VATLAYER_API_KEY = "key") =>
          /\ errFb = Err("", "", "", "vatlayer_unavailable")
          /\ VatlayerEndpoints = <<"current", "legacy">>

\* The legacy endpoint answered after the current one failed.
C13_Witness ==
    /\ SourcesSent = {"vatlayer-legacy"}
    /\ VatlayerEndpoints = <<"current", "legacy">>

\* Neither endpoint answered and the handler caught vatlayer_unavailable.
C13_WitnessUnavailable ==
    /\ errFb = Err("", "", "", "vatlayer_unavailable")
    /\ pc = "done"

\* C14: without an API key vatlayerCheck throws before any fetch, the handler
\* catches it, and the request ends with the fail-open 200 response.
C14_MissingKeyFailsOpen ==
    VATLAYER_API_KEY = "undefined" =>
        /\ VatlayerEndpoints = << >>
        /\ promise["vatlayer"] \in {"none", "rejected"}
        /\ ValidIdentifier(vat_number) => ~thrown
        /\ Started("vatlayer") =>
              /\ pc = "done"
              /\ res = <<Response(200, FailOpenBody)>>
              /\ errFb = Err("", "", "", "vatlayer_missing_key")
              /\ timerAt = now + ms["vatlayer"]

\* Both VIES attempts failed and the vatlayer step was entered without a key.
C14_Witness ==
    /\ VATLAYER_API_KEY = "undefined"
    /\ Over("vies1") /\ Over("vies2")
    /\ Started("vatlayer")
    /\ pc = "done"

\* A provider call of a single-provider revision failed and was caught.
ProviderCallFailed ==
    /\ pc = "done"
    /\ \E i \in Labels : promise[i] = "rejected"

OnlyValidFalse ==
    [valid |-> "false", validation_status |-> "undefined", format_valid |-> "undefined",
     company_name |-> "undefined", company_address |-> "undefined"]
InvalidByVatlayer ==
    Response(200, [valid |-> FALSE, name |-> "null", address |-> "null", source |-> "vatlayer"])

\* The steps of the handler that C17 is about.
C17_Steps ==
    /\ (pc = "catch1" /\ pc' # "catch1" /\ outcome["vies1"] = "timeout") =>
          pc' = (IF Remaining > 0 THEN "start2" ELSE "check_fb")
    /\ (pc = "start2" /\ pc' # "start2") =>
          ms'["vies2"] = Min(6000, Remaining) /\ pc' = "await2"
    /\ (pc = "await2" /\ outcome'["vies2"] = "timeout") => pc' = "check_fb"
    /\ (pc = "check_fb" /\ pc' # "check_fb" /\ Remaining > 0) => pc' = "start3"
    /\ (pc = "start3" /\ pc' # "start3") => ms'["vatlayer"] = Min(8000, Remaining)
    /\ (pc = "await3" /\ promise["vatlayer"] = "current"
           /\ promise'["vatlayer"] = "resolved" /\ d' = <<OnlyValidFalse>>) =>
          res' = <<InvalidByVatlayer>> /\ pc' = "done"

\* C17: a first attempt ended by its timer counts as temporary and is retried
\* with min(6000, remaining) while budget remains; when the retry times out
\* too the vatlayer step is entered with min(8000, remaining), and an answer
\* { valid: false } of the current endpoint that arrives while it is awaited
\* is passed on as 200 { valid: false, name: null, address: null } with
\* source vatlayer.
C17_TimeoutIsRetried == [][C17_Steps]_vars

\* Timers at 8000 and 14000, then { valid: false } from the current endpoint.
C17_Witness ==
    /\ ms = [i \in Labels |-> IF i = "vies1" THEN 8000 ELSE 6000]
    /\ outcome = [i \in Labels |-> IF i = "vatlayer" THEN "ok" ELSE "timeout"]
    /\ d = <<OnlyValidFalse>>
    /\ res = <<InvalidByVatlayer>>
    /\ pc = "done"

\* The calls of the request that went to one of the given endpoints.
CallsTo(endpoints) == {k \in 1..Len(calls) : calls[k].to \in endpoints}

\* C18: one request makes at most two VIES invocations and at most one
\* vatlayer invocation (two endpoint fetches); a failed retry, whatever it
\* failed with, leads on to the vatlayer step and never to another VIES
\* attempt.
C18_AtMostTwoPrimaryOneSecondary ==
    /\ Cardinality(CallsTo({"wsdl"})) <= 2
    /\ Cardinality(CallsTo({"checkVat"})) <= 2
    /\ Cardinality(CallsTo({"current"})) <= 1
    /\ Cardinality(CallsTo({"current", "legacy"})) <= 2
    /\ \A i \in Labels : Cardinality(InvocationsOf(i)) <= 1
    /\ Over("vies2") => pc \in {"check_fb", "start3", "await3", "done"}
    /\ Started("vatlayer") => pc \in {"await3", "done"}

\* Both VIES invocations failed in checkVat, the retry with an upstream
\* fault, and both vatlayer endpoints were fetched: six calls in all.
C18_Witness ==
    /\ outcome["vies1"] = "error" /\ outcome["vies2"] = "error"
    /\ Len(calls) = 6
    /\ Cardinality(CallsTo({"wsdl"})) = 2
    /\ Cardinality(CallsTo({"current", "legacy"})) = 2
    /\ pc = "done"

\* The attempts whose provider operation has not settled yet.
Unsettled == {"wsdl", "checkVat", "current", "legacy"}
InFlight == {i \in Labels : promise[i] \in Unsettled}

\* A timer ends attempt i in this step.
TimesOut(i) == outcome[i] # "timeout" /\ outcome'[i] = "timeout"

C19_Steps ==
    /\ \A i \in Labels : TimesOut(i) => promise' = promise /\ calls' = calls
    /\ \A i \in Labels :
          (promise[i] \in Unsettled /\ promise'[i] # promise[i]) =>
              /\ promise'[i] \in Unsettled \cup {"resolved", "rejected"}
              /\ \A j \in Labels : ~TimesOut(j)
              /\ pc # AwaitPc(i) => /\ pc' = pc /\ res' = res /\ outcome' = outcome

\* C19: the timer that ends an attempt leaves the attempt's operation as it
\* is; the operation stays in flight until it settles on its own, also while
\* later attempts run, and what it settles with is dropped.  At most three
\* operations are ever started, so at most three are in flight.
C19_NotCancelled ==
    /\ [][C19_Steps]_vars
    /\ [](Cardinality(CallsTo({"wsdl", "current"})) <= 3)
    /\ [](Cardinality(InFlight) <= Cardinality(CallsTo({"wsdl", "current"})))

\* Both VIES operations outlived their timers and are still in flight while
\* the vatlayer attempt is awaited.
C19_Witness ==
    /\ InFlight = Labels
    /\ outcome["vies1"] = "timeout" /\ outcome["vies2"] = "timeout"
    /\ pc = "await3"

\* The budget values read at the checks of lines 247, 257 and 268 so far.
Read(i) == left[i] # NotYet

C20_Steps ==
    pc # "entry" => /\ startedAt' = startedAt
                    /\ Remaining' <= Remaining

C20_Reads ==
    /\ Remaining >= 0 /\ Remaining <= 20000
    /\ \A i \in Labels :
          /\ Read(i) => left[i] >= 0 /\ left[i] <= 20000 /\ Remaining <= left[i]
          /\ Started(i) => ms[i] >= 0 /\ ms[i] <= left["vies1"]
          /\ (Started(i) /\ Read(i)) => ms[i] <= left[i]
    /\ Read("vies2") => Read("vies1") /\ left["vies2"] <= left["vies1"]
    /\ Read("vatlayer") => Read("vies1") /\ left["vatlayer"] <= left["vies1"]
    /\ (Read("vatlayer") /\ Read("vies2")) => left["vatlayer"] <= left["vies2"]

\* C20: startedAt, and with it the deadline startedAt + 20000, is set at
\* request entry and changed by no later step; on a clock that does not run
\* backwards the budget read at successive checks never grows and is never
\* negative.
C20_DeadlineFixed == [][C20_Steps]_vars /\ []C20_Reads

\* The three checks read 20000, 12000 and 6000.
C20_Witness ==
    /\ left = [i \in Labels |-> CASE i = "vies1" -> 20000
                                  [] i = "vies2" -> 12000
                                  [] i = "vatlayer" -> 6000]
    /\ pc = "done"

\* What x || null gives for a field of the payload.
FieldOrNull(text) == IF text = "" \/ text = "undefined" THEN "null" ELSE text

\* The starting state of SpecVatlayer is a state of the orchestrator.
InitVatlayerReached == InitVatlayer

\* C21: for every payload an endpoint answers with, the result's valid flag is
\* true exactly when valid is true, validation_status is "valid" or
\* format_valid is true; name and address are the payload's company name and
\* address, or null when these are absent or empty; the source is the
\* endpoint that answered.
C21_ValidFromAnyOfThreeFields ==
    d # << >> =>
        LET json == d[1]
            body == res[1].body
        IN  /\ Len(res) = 1
            /\ res[1].status = 200
            /\ body.valid = (\/ json.valid = "true"
                             \/ json.validation_status = "valid"
                             \/ json.format_valid = "true")
            /\ body.name = FieldOrNull(json.company_name)
            /\ body.address = FieldOrNull(json.company_address)
            /\ body.source = (IF Len(calls) = 2 THEN "vatlayer" ELSE "vatlayer-legacy")

\* The legacy endpoint answered with format_valid alone, and with the number
\* 1 for valid, which is not === true.
C21_Witness ==
    /\ d # << >>
    /\ d[1].valid = "1" /\ d[1].validation_status = "invalid"
    /\ d[1].format_valid = "false" /\ d[1].company_name = ""
    /\ Len(res) = 1
    /\ res[1].body = [valid |-> FALSE, name |-> "null", address |-> "Hauptstr. 1",
                      source |-> "vatlayer-legacy"]

\* The positions in the call log of the calls to one endpoint of the shop.
ShopCalls(endpoint) == {k \in 1..Len(calls) : calls[k].to = endpoint}

\* The request is a registration.
IsRegister == calls # << >> /\ calls[1].by = "register"

\* C22: /register issues the creation call only after its lookup by email has
\* completed without a customer; when the lookup finds one, no creation call
\* is made and the response is success with that customer.
C22_CreateOnlyAfterEmptyLookup ==
    /\ Cardinality(ShopCalls("create")) <= 1
    /\ \A k \in ShopCalls("create") :
          /\ calls[k].by = "register"
          /\ \E j \in ShopCalls("search") : j < k /\ calls[j].by = "register"
          /\ shopify.search \in {"empty", "not_ok", "network_error", "malformed"}
          /\ existingCustomer = [type |-> "null"]
    /\ shopify.create # "none" => ShopCalls("create") # {}
    /\ (IsRegister /\ shopify.search = "found") =>
          /\ ShopCalls("create") = {}
          /\ shopify.create = "none"
          /\ pc = "done"
          /\ res = <<Response(200, [success |-> TRUE, message |-> "Kunde existiert bereits.",
                                    customer |-> [type |-> "object", id |-> 1]])>>

\* The lookup found the customer: answered without a creation call.
C22_Witness ==
    /\ IsRegister
    /\ shopify.search = "found"
    /\ Len(calls) = 1
    /\ Len(res) = 1 /\ res[1].status = 200

\* The lookup found nobody and the customer was created.
C22_WitnessCreated ==
    /\ shopify = [search |-> "empty", create |-> "created"]
    /\ Len(calls) = 2
    /\ pc = "done"

\* The request went to /check-email and passed its validation.
IsCheckEmail == calls # << >> /\ calls[1].by = "check-email"

\* The search ended without a usable answer.
LookupFailed == shopify.search \in {"not_ok", "network_error", "malformed"}

\* C23: findCustomerByEmail reports a non-OK status and every exception of
\* the lookup as null.  /check-email with a non-empty string email then
\* answers 200 { exists: false } and never 500; /register goes on to the
\* creation call.
C23_LookupFailureIsNoCustomer ==
    /\ ~thrown
    /\ LookupFailed => existingCustomer = [type |-> "null"]
    /\ (IsCheckEmail /\ LookupFailed) => res = <<Response(200, [exists |-> FALSE])>>
    /\ IsCheckEmail =>
          /\ email.type = "string" /\ email.chars # << >>
          /\ \A k \in 1..Len(res) : res[k].status = 200
          /\ pc = "done" => Len(res) = 1
    /\ (~IsRegister /\ pc = "done") => \A k \in 1..Len(res) : res[k].status \in {200, 400}
    /\ (IsRegister /\ LookupFailed) =>
          /\ ShopCalls("create") # {}
          /\ shopify.create # "none"
          /\ pc \in {"register_create", "done"}

\* The fetch of the search was rejected and /check-email answered
\* exists: false.
C23_Witness ==
    /\ IsCheckEmail
    /\ shopify.search = "network_error"
    /\ res = <<Response(200, [exists |-> FALSE])>>

\* The search answered non-OK and /register went on to create the customer.
C23_WitnessRegister ==
    /\ IsRegister
    /\ shopify = [search |-> "not_ok", create |-> "created"]
    /\ Len(res) = 1 /\ res[1].status = 200

=============================================================================
